---- MODULE Spec2Model ----
(***************************************************************************)
(* RHVoice text-to-speech provider (custom_components/rhvoice/tts.py).    *)
(*                                                                         *)
(* Python values are tagged records PyInt(n), PyStr(s), PyBool(b) or None; *)
(* a dict is a function from its keys to such values.  A validator either *)
(* returns the validated value or Invalid (voluptuous raising vol.Invalid).*)
(***************************************************************************)
EXTENDS Integers, Sequences, FiniteSets, TLC

VARIABLES
    self,        \* the RHVoiceProvider instance: attribute name -> value (NoProvider before)
    pc,          \* where the program is: see PcValues
    message,     \* async_get_tts_audio: the local `message`
    options,     \* async_get_tts_audio: the local `options` (resolved dict)
    supplied,    \* the `options` argument as the caller passed it
    sent,        \* sequence of HTTP GETs issued by the current call (their params)
    request,     \* the response object bound to the local `request`
    elapsed,     \* time spent inside the async_timeout.timeout block (0 outside it)
    result       \* what the last async_get_tts_audio call gave its caller

vars == <<self, pc, message, options, supplied, sent, request, elapsed, result>>

-----------------------------------------------------------------------------
(* Python values *)

None == [none |-> TRUE]
PyInt(n) == [int |-> n]
PyStr(s) == [str |-> s]
PyBool(b) == [bool |-> b]
Invalid == [invalid |-> TRUE]

IsInt(x) == "int" \in DOMAIN x
IsStr(x) == "str" \in DOMAIN x
IsBool(x) == "bool" \in DOMAIN x

\* Python truthiness of a value, as `if not message` / `options or {}` use it.
Truthy(x) ==
    IF IsStr(x) THEN x.str # ""
    ELSE IF IsInt(x) THEN x.int # 0
    ELSE IF IsBool(x) THEN x.bool
    ELSE IF x = None THEN FALSE
    ELSE DOMAIN x # {}

EmptyDict == [k \in {} |-> None]

-----------------------------------------------------------------------------
(* Module constants *)

CONF_HOST == "host"
CONF_PORT == "port"
CONF_SSL == "ssl"
CONF_TIMEOUT == "timeout"
CONF_VERIFY_SSL == "verify_ssl"

CONF_FORMAT == "format"
CONF_PITCH == "pitch"
CONF_RATE == "rate"
CONF_VOICE == "voice"
CONF_VOLUME == "volume"

SUPPORTED_FORMATS == <<"flac", "mp3", "opus", "wav">>
SUPPORTED_OPTIONS == <<CONF_FORMAT, CONF_PITCH, CONF_RATE, CONF_VOICE, CONF_VOLUME>>

\* The dict keeps insertion order: a sequence of (language, voices) items.
SUPPORTED_LANGUAGES ==
    << [language |-> "en-US", voices |-> <<"alan", "bdl", "clb", "evgeniy-eng", "slt">>],
       [language |-> "eo",    voices |-> <<"spomenka">>],
       [language |-> "ka-GE", voices |-> <<"natia">>],
       [language |-> "ky-KG", voices |-> <<"azamat", "nazgul">>],
       [language |-> "mk",    voices |-> <<"kiko">>],
       [language |-> "pl-PL", voices |-> <<"natan", "michal", "cezary", "magda", "alicja">>],
       [language |-> "pt-BR", voices |-> <<"letícia-f123">>],
       [language |-> "ru-RU", voices |-> <<"aleksandr", "anna", "arina", "artemiy", "elena",
                                           "evgeniy-rus", "irina", "pavel", "yuriy", "victoria">>],
       [language |-> "tt-RU", voices |-> <<"talgat">>],
       [language |-> "uk-UA", voices |-> <<"anatol", "natalia", "volodymyr">>] >>

DEFAULT_PORT == 8080
DEFAULT_FORMAT == "mp3"
DEFAULT_PITCH == 50
DEFAULT_RATE == 50
DEFAULT_VOICE == "anna"
DEFAULT_VOLUME == 50

HTTPStatus_OK == 200

Elems(seq) == {seq[i] : i \in 1..Len(seq)}

-----------------------------------------------------------------------------
(* Validators *)

\* int(s) for a str: the decimal numerals of IntLiterals parse, anything else
\* raises ValueError.
IntLiterals == -1..101
Numerals == {ToString(n) : n \in IntLiterals}

\* vol.Coerce(int): int(v); a ValueError or TypeError becomes vol.Invalid.
Coerce_int(v) ==
    IF IsInt(v) THEN v
    ELSE IF IsBool(v) THEN PyInt(IF v.bool THEN 1 ELSE 0)
    ELSE IF IsStr(v) /\ v.str \in Numerals
         THEN PyInt(CHOOSE n \in IntLiterals : ToString(n) = v.str)
    ELSE Invalid

\* Range with its upper end off by one.
Range_OffByOne(v, min, max) ==
    IF v = Invalid THEN Invalid
    ELSE IF v.int < min \/ v.int > max + 1 THEN Invalid
    ELSE v

\* vol.Range(min, max) on an already validated value.
Range(v, min, max) ==
    IF v = Invalid THEN Invalid
    ELSE IF v.int < min \/ v.int > max THEN Invalid
    ELSE v

\* cv.string: None is rejected, a str is kept, another scalar becomes str(v).
cv_string(v) ==
    IF v = None THEN Invalid
    ELSE IF IsStr(v) THEN v
    ELSE IF IsInt(v) THEN PyStr(ToString(v.int))
    ELSE IF IsBool(v) THEN PyStr(IF v.bool THEN "True" ELSE "False")
    ELSE Invalid

\* vol.In(container) on an already validated value.
In(v, container) ==
    IF v = Invalid THEN Invalid
    ELSE IF v.str \in container THEN v
    ELSE Invalid

\* list(chain(*SUPPORTED_LANGUAGES.values()))
AllVoices == UNION {Elems(SUPPORTED_LANGUAGES[i].voices) : i \in 1..Len(SUPPORTED_LANGUAGES)}

FORMAT_SCHEMA(v) == In(cv_string(v), Elems(SUPPORTED_FORMATS))
PITCH_SCHEMA(v) == Range(Coerce_int(v), 0, 100)
RATE_SCHEMA(v) == Range(Coerce_int(v), 0, 100)
VOICE_SCHEMA(v) == In(cv_string(v), AllVoices)
VOLUME_SCHEMA(v) == Range(Coerce_int(v), 0, 100)

\* cv.port: vol.All(vol.Coerce(int), vol.Range(min=1, max=65535))
cv_port(v) == Range(Coerce_int(v), 1, 65535)

\* cv.boolean on the values sampled here (bools and ints 0/1).
cv_boolean(v) ==
    IF IsBool(v) THEN v
    ELSE IF IsInt(v) /\ v.int \in {0, 1} THEN PyBool(v.int = 1)
    ELSE Invalid

\* The validator a schema key maps to.
Validate(key, v) ==
    CASE key = CONF_FORMAT -> FORMAT_SCHEMA(v)
      [] key = CONF_PITCH -> PITCH_SCHEMA(v)
      [] key = CONF_RATE -> RATE_SCHEMA(v)
      [] key = CONF_VOICE -> VOICE_SCHEMA(v)
      [] key = CONF_VOLUME -> VOLUME_SCHEMA(v)
      [] key = CONF_HOST -> cv_string(v)
      [] key = CONF_PORT -> cv_port(v)
      [] key = CONF_SSL -> cv_boolean(v)
      [] key = CONF_VERIFY_SSL -> cv_boolean(v)
      [] OTHER -> Invalid

\* A vol.Schema over a dict whose keys are `required` and vol.Optional keys with
\* `defaults`; keys in `passthrough` are accepted as they are.  Missing optional
\* keys get their default BEFORE validation, so defaults are validated too;
\* a missing required key or a key the schema does not know is vol.Invalid.
ApplySchema(data, required, defaults, passthrough) ==
    LET known == required \cup DOMAIN defaults
        filled == [k \in DOMAIN data \cup DOMAIN defaults |->
                     IF k \in DOMAIN data THEN data[k] ELSE defaults[k]]
        out == [k \in DOMAIN filled |->
                  IF k \in known THEN Validate(k, filled[k])
                  ELSE IF k \in passthrough THEN filled[k]
                  ELSE Invalid]
    IN  IF (\E k \in required : k \notin DOMAIN data) \/ (\E k \in DOMAIN out : out[k] = Invalid)
        THEN Invalid
        ELSE out

\* PLATFORM_SCHEMA: the keys this module adds to the base tts platform schema.
\* It declares no timeout key and no timeout default; a timeout the base schema
\* lets through reaches the provider as given.
PLATFORM_SCHEMA(config) ==
    ApplySchema(config,
                {CONF_HOST},
                [port |-> PyInt(DEFAULT_PORT), format |-> PyStr(DEFAULT_FORMAT),
                 pitch |-> PyInt(DEFAULT_PITCH), rate |-> PyInt(DEFAULT_RATE),
                 ssl |-> PyBool(FALSE), verify_ssl |-> PyBool(TRUE),
                 voice |-> PyStr(DEFAULT_VOICE), volume |-> PyInt(DEFAULT_VOLUME)],
                {CONF_TIMEOUT})

-----------------------------------------------------------------------------
(* RHVoiceProvider *)

\* dict.get(key): None for a missing key.
Get(d, key) == IF key \in DOMAIN d THEN d[key] ELSE None

\* How an f-string renders a value.
Format(v) ==
    IF IsStr(v) THEN v.str
    ELSE IF IsInt(v) THEN ToString(v.int)
    ELSE IF IsBool(v) THEN (IF v.bool THEN "True" ELSE "False")
    ELSE "None"

\* The lookup reporting the item after the one that matched.
FindLanguage_NextItem(voice, i) ==
    LET hits == {j \in i..Len(SUPPORTED_LANGUAGES) :
                    IsStr(voice) /\ voice.str \in Elems(SUPPORTED_LANGUAGES[j].voices)}
        first == CHOOSE j \in hits : \A h \in hits : j <= h
    IN  IF hits = {} THEN None
        ELSE PyStr(SUPPORTED_LANGUAGES[(first % Len(SUPPORTED_LANGUAGES)) + 1].language)

\* The loop of __init__ over SUPPORTED_LANGUAGES.items(), from item i on: the
\* first language whose voices hold `voice` (then break), or None when the
\* loop ends without assigning self._language.
RECURSIVE FindLanguage(_, _)
FindLanguage(voice, i) ==
    IF i > Len(SUPPORTED_LANGUAGES) THEN None
    ELSE IF IsStr(voice) /\ voice.str \in Elems(SUPPORTED_LANGUAGES[i].voices)
         THEN PyStr(SUPPORTED_LANGUAGES[i].language)
    ELSE FindLanguage(voice, i + 1)

\* RHVoiceProvider.__init__: the attributes the constructor assigns.
\* `_language` is assigned only inside the loop, so it exists only on a match.
RHVoiceProvider(conf) ==
    LET host == Get(conf, CONF_HOST)
        port == Get(conf, CONF_PORT)
        ssl == Get(conf, CONF_SSL)
        assigned ==
            [name |-> PyStr("RHVoice"),
             _url |-> PyStr("http" \o (IF Truthy(ssl) THEN "s" ELSE "") \o "://"
                            \o Format(host) \o ":" \o Format(port) \o "/say"),
             _verify_ssl |-> Get(conf, CONF_VERIFY_SSL),
             _encoding |-> Get(conf, CONF_FORMAT),
             _pitch |-> Get(conf, CONF_PITCH),
             _rate |-> Get(conf, CONF_RATE),
             _voice |-> Get(conf, CONF_VOICE),
             _volume |-> Get(conf, CONF_VOLUME),
             _timeout |-> Get(conf, CONF_TIMEOUT)]
        language == FindLanguage(assigned._voice, 1)
    IN  IF language = None THEN assigned
        ELSE assigned @@ [_language |-> language]

\* What a call or a property access gives its caller.
Returned(value) == [kind |-> "return", value |-> value]
Raised(exc) == [kind |-> "raise", exc |-> exc]
NoResult == [kind |-> "none"]

\* The property default_language: an attribute that was never assigned raises.
default_language(obj) ==
    IF "_language" \in DOMAIN obj THEN Returned(obj._language)
    ELSE Raised("AttributeError")

\* The property supported_languages: list(SUPPORTED_LANGUAGES.keys()).
supported_languages(obj) ==
    Returned([i \in 1..Len(SUPPORTED_LANGUAGES) |-> SUPPORTED_LANGUAGES[i].language])

\* The property supported_options.
supported_options(obj) == Returned(SUPPORTED_OPTIONS)

\* options_schema with the pitch default taken from the rate.
options_schema_RateForPitch(obj, opts) ==
    ApplySchema(IF Truthy(opts) THEN opts ELSE EmptyDict,
                {},
                [format |-> obj._encoding, pitch |-> obj._rate, rate |-> obj._rate,
                 voice |-> obj._voice, volume |-> obj._volume],
                {})

\* options_schema of async_get_tts_audio applied to `options or {}`.
options_schema(obj, opts) ==
    ApplySchema(IF Truthy(opts) THEN opts ELSE EmptyDict,
                {},
                [format |-> obj._encoding, pitch |-> obj._pitch, rate |-> obj._rate,
                 voice |-> obj._voice, volume |-> obj._volume],
                {})

-----------------------------------------------------------------------------
(* Bounds and sampled inputs *)

MaxTimeout == 1

\* All dicts whose key set is one of `keysets`, each key holding one of its
\* sampled values.
Dicts(keysets, samples) ==
    UNION { {d \in [K -> UNION {samples[k] : k \in K}] :
                \A k \in K : d[k] \in samples[k]} : K \in keysets }

\* The subsets of `keys` that leave out, or hold, at most one key.
NearlyNoneOrAll(keys) ==
    {K \in SUBSET keys : Cardinality(K) <= 1 \/ Cardinality(keys \ K) <= 1}

ConfigSamples ==
    [host |-> {PyStr("tts.local")},
     port |-> {PyInt(8443), PyInt(0)},
     ssl |-> {PyBool(TRUE)},
     format |-> {PyStr("wav"), PyStr("ogg")},
     pitch |-> {PyInt(20), PyInt(101)},
     rate |-> {PyStr("30")},
     volume |-> {PyInt(40), PyStr("loud")},
     voice |-> {PyStr(v) : v \in AllVoices \cup {"nobody"}},
     timeout |-> {PyInt(t) : t \in 1..MaxTimeout}]

\* Configurations handed to the platform schema: the endpoint keys, the default
\* voice, and the other synthesis defaults with the timeout.
RawConfigs ==
    Dicts({{CONF_HOST} \cup K : K \in SUBSET {CONF_PORT, CONF_SSL}}, ConfigSamples)
    \cup Dicts({{CONF_HOST, CONF_VOICE}}, ConfigSamples)
    \cup Dicts({{CONF_HOST} \cup K :
                   K \in NearlyNoneOrAll({CONF_FORMAT, CONF_PITCH, CONF_RATE,
                                          CONF_VOLUME, CONF_TIMEOUT})},
               ConfigSamples)

\* Configurations handed to the constructor without the platform schema: a
\* complete configuration whose voice is in no language's voice set.
DirectConfs ==
    {[PLATFORM_SCHEMA(c) EXCEPT !.voice = PyStr("nobody")] :
        c \in Dicts({{CONF_HOST}, {CONF_HOST, CONF_TIMEOUT}}, ConfigSamples)}

\* Values inside each option's domain, and values outside it.
GoodOptions ==
    [format |-> {PyStr("opus")},
     pitch |-> {PyStr("70")},
     rate |-> {PyInt(0)},
     voice |-> {PyStr("slt")},
     volume |-> {PyInt(100)}]

BadOptions ==
    [format |-> {PyStr("ogg")},
     pitch |-> {PyInt(101), PyStr("high")},
     rate |-> {PyInt(-1)},
     voice |-> {PyStr("nobody")},
     volume |-> {PyStr("101")},
     speed |-> {PyInt(1)}]

\* The `options` argument: None, or a partial map of in-domain values, or one
\* out-of-domain value (alone, or with every other option in its domain), or
\* a map with a key that is no supported option.
OptionInputs ==
    {None}
    \cup Dicts(NearlyNoneOrAll(Elems(SUPPORTED_OPTIONS)), GoodOptions)
    \cup Dicts({{k} : k \in DOMAIN BadOptions}, BadOptions)
    \cup { bad @@ good : bad \in Dicts({{k} : k \in Elems(SUPPORTED_OPTIONS)}, BadOptions),
                         good \in Dicts({Elems(SUPPORTED_OPTIONS)}, GoodOptions) }

Messages == {"", "hi"}
Statuses == {HTTPStatus_OK, 500}
Bodies == {"", "RIFF...audio..."}

-----------------------------------------------------------------------------
(* State *)

NoProvider == [none |-> TRUE]
NoRequest == [none |-> TRUE]
Idle == {"idle", "returned", "raised"}
Awaiting == {"awaiting_response", "awaiting_body"}
PcValues == {"new"} \cup Idle \cup Awaiting

Init ==
    /\ self = NoProvider
    /\ pc = "new"
    /\ message = None
    /\ options = None
    /\ supplied = None
    /\ sent = <<>>
    /\ request = NoRequest
    /\ elapsed = 0
    /\ result = NoResult

callVars == <<message, options, supplied, sent, request, elapsed, result>>

\* The host validates the platform configuration and calls async_get_engine,
\* which constructs the provider; a rejected configuration sets nothing up.
async_get_engine ==
    /\ pc = "new"
    /\ \E config \in RawConfigs :
          /\ PLATFORM_SCHEMA(config) # Invalid
          /\ self' = RHVoiceProvider(PLATFORM_SCHEMA(config))
    /\ pc' = "idle"
    /\ UNCHANGED callVars

\* RHVoiceProvider(hass, conf) called with a configuration no schema checked.
Construct ==
    /\ pc = "new"
    /\ \E conf \in DirectConfs : self' = RHVoiceProvider(conf)
    /\ pc' = "idle"
    /\ UNCHANGED callVars

\* The (None, None) every failure after dispatch returns.
Failure == Returned(<<None, None>>)

\* async_get_tts_audio up to its first await: resolve the options (vol.Invalid
\* propagates to the caller), put the text into them, replace an empty local
\* `message`, enter the timeout block and issue the GET.
async_get_tts_audio ==
    /\ pc \in Idle
    /\ \E msg \in Messages, opts \in OptionInputs :
          LET resolved == options_schema(self, opts)
              params == resolved @@ [text |-> PyStr(msg)]
          IN  /\ supplied' = opts
              /\ IF resolved = Invalid
                 THEN /\ pc' = "raised"
                      /\ result' = Raised("vol.Invalid")
                      /\ message' = PyStr(msg)
                      /\ options' = None
                      /\ sent' = <<>>
                 ELSE /\ pc' = "awaiting_response"
                      /\ result' = NoResult
                      /\ options' = params
                      /\ message' = IF ~Truthy(PyStr(msg)) THEN PyStr(" ") ELSE PyStr(msg)
                      /\ sent' = <<[url |-> self._url, params |-> params,
                                   verify_ssl |-> self._verify_ssl]>>
    /\ request' = NoRequest
    /\ elapsed' = 0
    /\ UNCHANGED self

\* Time passes inside async_timeout.timeout(self._timeout); timeout(None) arms
\* no timer.
Tick ==
    /\ pc \in Awaiting
    /\ self._timeout # None
    /\ elapsed < self._timeout.int
    /\ elapsed' = elapsed + 1
    /\ UNCHANGED <<self, pc, message, options, supplied, sent, request, result>>

\* A response the call stops waiting on (an exception out of request.read())
\* is closed by the read; nothing else in the call releases a response.
AfterFailedAwait(req) ==
    IF req = NoRequest THEN req ELSE [req EXCEPT !.released = TRUE]

\* A timeout that issues the request again instead of returning.
TimeoutFires_Retries ==
    /\ pc \in Awaiting
    /\ self._timeout # None
    /\ elapsed >= self._timeout.int
    /\ pc' = "awaiting_response"
    /\ sent' = Append(sent, sent[1])
    /\ request' = NoRequest
    /\ elapsed' = 0
    /\ UNCHANGED <<self, message, options, supplied, result>>

\* The armed timer expires at either await: aioTimeoutError, the except branch.
TimeoutFires ==
    /\ pc \in Awaiting
    /\ self._timeout # None
    /\ elapsed >= self._timeout.int
    /\ pc' = "returned"
    /\ result' = Failure
    /\ request' = AfterFailedAwait(request)
    /\ elapsed' = 0
    /\ UNCHANGED <<self, message, options, supplied, sent>>

\* An except clause that does not list ClientError: the error reaches the caller.
ClientError_Propagates ==
    /\ pc \in Awaiting
    /\ pc' = "raised"
    /\ result' = Raised("ClientError")
    /\ request' = AfterFailedAwait(request)
    /\ elapsed' = 0
    /\ UNCHANGED <<self, message, options, supplied, sent>>

\* The transport fails at either await: ClientError, the except branch.
ClientError ==
    /\ pc \in Awaiting
    /\ pc' = "returned"
    /\ result' = Failure
    /\ request' = AfterFailedAwait(request)
    /\ elapsed' = 0
    /\ UNCHANGED <<self, message, options, supplied, sent>>

\* websession.get completes: a status other than 200 returns (None, None)
\* at once, the response neither read nor released; 200 goes on to the read.
ResponseArrives ==
    /\ pc = "awaiting_response"
    /\ \E status \in Statuses :
          /\ request' = [status |-> status, read |-> FALSE, released |-> FALSE,
                          body |-> None]
          /\ IF status # HTTPStatus_OK
             THEN pc' = "returned" /\ result' = Failure
             ELSE pc' = "awaiting_body" /\ result' = result
    /\ elapsed' = (IF pc' = "returned" THEN 0 ELSE elapsed)
    /\ UNCHANGED <<self, message, options, supplied, sent>>

\* The label the success return pairs with the data.
ReturnedEncoding(obj, opts) == obj._encoding

\* request.read() completes (the connection goes back to the pool at the end
\* of the body) and the call returns the pair.
BodyArrives ==
    /\ pc = "awaiting_body"
    /\ \E data \in Bodies :
          /\ request' = [request EXCEPT !.read = TRUE, !.released = TRUE,
                                        !.body = [bytes |-> data]]
          /\ result' = Returned(<<ReturnedEncoding(self, options), [bytes |-> data]>>)
    /\ pc' = "returned"
    /\ elapsed' = 0
    /\ UNCHANGED <<self, message, options, supplied, sent>>

Next ==
    \/ async_get_engine
    \/ Construct
    \/ async_get_tts_audio
    \/ Tick
    \/ TimeoutFires
    \/ ClientError
    \/ ResponseArrives
    \/ BodyArrives

Spec == Init /\ [][Next]_vars

\* The event loop runs a due timer callback: the clock advances and an expired
\* timer fires.  Nothing obliges the remote server to answer or fail.
LiveSpec == Spec /\ WF_vars(Tick) /\ WF_vars(TimeoutFires)

TypeOK ==
    /\ pc \in PcValues
    /\ elapsed \in 0..MaxTimeout
    /\ Len(sent) \in 0..1

-----------------------------------------------------------------------------
(* Properties *)

\* The decimal numerals of the integers 0..100, as strings.
DomainNumerals == {PyStr(ToString(n)) : n \in 0..100}

\* The domain of each option, stated from the schema constants: a format is one
\* of the four names, pitch/rate/volume denote an integer of 0..100, a voice is
\* some language's voice; no other key is an option.
InDomain(key, v) ==
    CASE key = CONF_FORMAT -> \E f \in {"flac", "mp3", "opus", "wav"} : v = PyStr(f)
      [] key \in {CONF_PITCH, CONF_RATE, CONF_VOLUME} ->
            v \in {PyInt(n) : n \in 0..100} \cup DomainNumerals
      [] key = CONF_VOICE ->
            \E i \in 1..Len(SUPPORTED_LANGUAGES) :
               \E j \in 1..Len(SUPPORTED_LANGUAGES[i].voices) :
                  v = PyStr(SUPPORTED_LANGUAGES[i].voices[j])
      [] OTHER -> FALSE

\* The value an in-domain option denotes.
Denoted(key, v) ==
    IF key \in {CONF_PITCH, CONF_RATE, CONF_VOLUME}
    THEN IF v \in DomainNumerals
         THEN PyInt(CHOOSE n \in 0..100 : v = PyStr(ToString(n)))
         ELSE v
    ELSE v

\* The provider attribute holding the default of an option.
DefaultOf(key) ==
    CASE key = CONF_FORMAT -> self._encoding
      [] key = CONF_PITCH -> self._pitch
      [] key = CONF_RATE -> self._rate
      [] key = CONF_VOICE -> self._voice
      [] key = CONF_VOLUME -> self._volume

OptionKeys == {CONF_FORMAT, CONF_PITCH, CONF_RATE, CONF_VOICE, CONF_VOLUME}
SuppliedDict == IF supplied = None THEN EmptyDict ELSE supplied
CallMade == pc \in Awaiting \cup {"returned", "raised"}
AllSuppliedInDomain == \A k \in DOMAIN SuppliedDict : InDomain(k, SuppliedDict[k])

\* C1: a call given any option outside its domain ends with the validation
\* error raised to the caller, and issues no HTTP request.
C1_InvalidOptionRaisesBeforeRequest ==
    (CallMade /\ ~AllSuppliedInDomain) =>
        /\ pc = "raised"
        /\ result = Raised("vol.Invalid")
        /\ sent = <<>>

C1_Witness ==
    /\ pc = "raised"
    /\ supplied = [pitch |-> PyInt(101)]
    /\ sent = <<>>

\* The query parameters of the one request carry, per option, the caller's
\* value when supplied and the provider's default when omitted.
ParamsAsResolved ==
    /\ pc # "raised"
    /\ Len(sent) = 1
    /\ \A k \in OptionKeys :
          sent[1].params[k] = (IF k \in DOMAIN SuppliedDict
                               THEN Denoted(k, SuppliedDict[k])
                               ELSE DefaultOf(k))

\* C2 as claimed: every call whose supplied options are all in their domains
\* resolves, each option independently taking the caller's value or the default.
C2_InDomainOptionsResolve ==
    (CallMade /\ AllSuppliedInDomain) => ParamsAsResolved

\* C2 amended: the same, for a provider whose defaults of the omitted options
\* are in their domains (the defaults of omitted options are validated too).
C2_InDomainOptionsAndDefaultsResolve ==
    (/\ CallMade
     /\ AllSuppliedInDomain
     /\ \A k \in OptionKeys \ DOMAIN SuppliedDict : InDomain(k, DefaultOf(k)))
        => ParamsAsResolved

C2_Witness ==
    /\ pc = "awaiting_response"
    /\ supplied = [pitch |-> PyStr("70")]
    /\ self._rate = PyInt(30)
    /\ sent[1].params.pitch = PyInt(70)
    /\ sent[1].params.rate = PyInt(30)
    /\ sent[1].params.format = PyStr(DEFAULT_FORMAT)

\* C3: the text parameter of an issued request is never empty (an empty message
\* is sent as a single space).
C3_TextNeverEmpty ==
    \A i \in 1..Len(sent) :
        /\ sent[i].params.text # PyStr("")
        /\ (message = PyStr(" ") => sent[i].params.text \in {PyStr(" ")})

\* C4: after a 200 whose body was read, the call returns the format parameter
\* it sent as the encoding label, with exactly the response body.
C4_LabelIsRequestedFormat ==
    (pc = "returned" /\ request # NoRequest /\ request.read) =>
        result = Returned(<<sent[1].params.format, request.body>>)

\* C5: every failure after dispatch returns (None, None) and raises nothing,
\* and the body of a non-200 response is never read.
C5_FailuresReturnNoneNone ==
    /\ (pc = "returned" /\ (request = NoRequest \/ ~request.read)) =>
           result = Returned(<<None, None>>)
    /\ (request # NoRequest /\ request.status # 200) =>
           (~request.read /\ request.body = None)
    /\ (Len(sent) >= 1) => result.kind # "raise"

C5_Witness ==
    /\ pc = "returned"
    /\ request # NoRequest
    /\ request.status = 500
    /\ result = Returned(<<None, None>>)

\* C6: a call whose request is in flight eventually returns, whatever the
\* accepted configuration.
C6_InFlightEventuallyReturns ==
    (pc \in Awaiting) ~> (pc = "returned")

\* C7: a call issues at most one GET, exactly one once validation succeeded,
\* and none after a failure.
C7_OneRequestPerCall ==
    /\ Len(sent) <= 1
    /\ (pc \in Awaiting \cup {"returned"}) => Len(sent) = 1
    /\ (pc = "raised") => sent = <<>>

C7_Witness ==
    /\ pc = "returned"
    /\ request = NoRequest
    /\ self._timeout # None
    /\ result = Returned(<<None, None>>)
    /\ Len(sent) = 1

\* C8: with a default voice in no language's voice set, default_language gives
\* a value (absent) rather than an error, and supported_languages gives every
\* key of the catalog.
C8_UnknownVoiceLeavesLanguageAbsent ==
    (pc # "new" /\ ~InDomain(CONF_VOICE, self._voice)) =>
        /\ default_language(self).kind = "return"
        /\ supported_languages(self) =
              Returned(<<"en-US", "eo", "ka-GE", "ky-KG", "mk", "pl-PL", "pt-BR",
                         "ru-RU", "tt-RU", "uk-UA">>)

\* The languages whose voice set holds a voice.
LanguagesOf(voice) ==
    {SUPPORTED_LANGUAGES[i].language :
        i \in {j \in 1..Len(SUPPORTED_LANGUAGES) :
                  \E n \in 1..Len(SUPPORTED_LANGUAGES[j].voices) :
                     SUPPORTED_LANGUAGES[j].voices[n] = voice}}

\* C9: every voice is under exactly one language, and a provider whose default
\* voice is a catalog voice reports that language as default_language, before
\* and after synthesis calls ("anna" gives "ru-RU").
C9_DefaultLanguageFromVoice ==
    /\ \A v \in AllVoices : Cardinality(LanguagesOf(v)) = 1
    /\ (pc # "new" /\ InDomain(CONF_VOICE, self._voice)) =>
           /\ default_language(self).kind = "return"
           /\ LanguagesOf(self._voice.str) = {default_language(self).value.str}
    /\ (pc # "new" /\ self._voice = PyStr("anna")) =>
           default_language(self) = Returned(PyStr("ru-RU"))

C9_Witness ==
    /\ pc = "returned"
    /\ self._voice = PyStr("volodymyr")
    /\ default_language(self) = Returned(PyStr("uk-UA"))

\* C10: a call that obtained a response has released it by the time it returns.
C10_ResponseReleasedOnReturn ==
    (pc = "returned" /\ request # NoRequest) => request.released

====
